---- MODULE Spec2Model ----
(***************************************************************************)
(* Model of alphasign.interfaces.base.BaseInterface.                       *)
(*                                                                         *)
(* Python byte strings are sequences of byte values (0..255); e.g. the     *)
(* string "E$" is <<69, 36>>.  Python values of mixed type (False, None,   *)
(* a str, a dict, a list, a raised exception) are tagged records.          *)
(* One action models one call of one method of the class; the outcomes of  *)
(* the transport's write() and read() (overridden by the subclasses) are   *)
(* inputs of the action.  The transport calls a method makes are recorded, *)
(* in order, in the variable log.                                          *)
(***************************************************************************)
EXTENDS Integers, Sequences, FiniteSets, TLC

VARIABLES
    op,      \* the method last called, "idle" between calls
    args,    \* its arguments
    log,     \* the transport calls it made, in order
    memory,  \* the value request() returned to it (table reads only)
    result   \* the value it returned, or the exception it raised

vars == <<op, args, log, memory, result>>

----------------------------------------------------------------------------
(* Bounds of the explored inputs *)

MaxNul == 2      \* leading NUL bytes of a response: 0..MaxNul
MaxRecs == 2     \* records of a response or table: 0..MaxRecs
MaxFiles == 2    \* files passed to allocate / set_run_sequence: 0..MaxFiles

----------------------------------------------------------------------------
(* Python values *)

False == [tag |-> "False"]
None == [tag |-> "None"]
Str(s) == [tag |-> "str", val |-> s]
Dict(d) == [tag |-> "dict", val |-> d]
List(l) == [tag |-> "list", val |-> l]
Raise(e) == [tag |-> "raise", exc |-> e]

IsRaise(v) == v.tag = "raise"

Min(a, b) == IF a <= b THEN a ELSE b

\* s[i:j] with 0 <= i <= j, Python's 0-based half-open slice, clipped at len(s)
Slice(s, i, j) == SubSeq(s, i + 1, Min(j, Len(s)))

RECURSIVE Flatten(_)
Flatten(ss) == IF ss = <<>> THEN <<>> ELSE Head(ss) \o Flatten(Tail(ss))

\* The names BaseInterface defines; looking up any other name on the class or
\* on an instance raises AttributeError.
Attributes ==
    { "write", "read", "request", "clear_memory", "beep", "soft_reset",
      "allocate", "set_run_sequence", "read_raw_memory_table",
      "read_memory_table", "chunk_raw_memory_table", "find_raw_entry",
      "parse_raw_entry", "decorate_entry", "parse_raw_memory_table",
      "find_entry" }

HasAttr(name) == name \in Attributes

----------------------------------------------------------------------------
(* Character classes of the two regular expressions *)

IsHex(c) == c \in 48..57 \/ c \in 65..70 \/ c \in 97..102    \* [0-9A-Fa-f]
IsLabelChar(c) == c \in 32..127                              \* [\x20-\x7F]
IsTypeChar(c) == c \in {65, 66, 68}                          \* [ABD]
IsLockChar(c) == c \in {85, 76}                              \* [UL]

----------------------------------------------------------------------------
(* Number formatting and parsing *)

HexDigit(d) == IF d < 10 THEN 48 + d ELSE 55 + d     \* upper case, as %X

RECURSIVE HexDigits(_)
HexDigits(n) ==
    IF n < 16 THEN <<HexDigit(n)>>
    ELSE Append(HexDigits(n \div 16), HexDigit(n % 16))

RECURSIVE ZeroPad(_, _)
ZeroPad(s, w) == IF Len(s) >= w THEN s ELSE ZeroPad(<<48>> \o s, w)

\* "%04X" % n, "%02X" % n, "%X" % n for n >= 0
Fmt04X(n) == ZeroPad(HexDigits(n), 4)
Fmt02X(n) == ZeroPad(HexDigits(n), 2)
FmtX(n) == HexDigits(n)

RECURSIVE DecDigits(_)
\* "%d" % n for n >= 0
DecDigits(n) ==
    IF n < 10 THEN <<48 + n>>
    ELSE Append(DecDigits(n \div 10), 48 + (n % 10))

HexValue(c) ==
    IF c \in 48..57 THEN c - 48
    ELSE IF c \in 65..70 THEN c - 55
    ELSE c - 87

RECURSIVE HexNumber(_)
HexNumber(s) ==
    IF s = <<>> THEN 0
    ELSE 16 * HexNumber(SubSeq(s, 1, Len(s) - 1)) + HexValue(s[Len(s)])

IsSpace(c) == c \in 9..13 \/ c = 32      \* C isspace: \t \n \v \f \r and space

\* The first position from p on of s that holds no white space (Len(s) + 1 when
\* there is none).
RECURSIVE SkipSpace(_, _)
SkipSpace(s, p) ==
    IF p <= Len(s) /\ IsSpace(s[p]) THEN SkipSpace(s, p + 1) ELSE p

\* The first position from p on of s that holds no hex digit.
RECURSIVE SkipHex(_, _)
SkipHex(s, p) ==
    IF p <= Len(s) /\ IsHex(s[p]) THEN SkipHex(s, p + 1) ELSE p

\* int(s, 16) of Python 2 for a str s reads, in this order: white space, an
\* optional sign, white space again, an optional 0x or 0X that a hex digit
\* follows, one or more hex digits, white space, and nothing else.  Anything
\* else (also a NUL byte anywhere) is a ValueError.  A value too large for an
\* int is a long of the same value.

\* The digits are s[p .. q - 1]; the str is a number when there is a digit and
\* only white space follows.
ParseTail(s, p, q, negative) ==
    IF q > p /\ SkipSpace(s, q) = Len(s) + 1
    THEN [ok |-> TRUE,
          val |-> (IF negative THEN -1 ELSE 1) * HexNumber(SubSeq(s, p, q - 1))]
    ELSE [ok |-> FALSE, val |-> 0]

ParseDigits(s, p, negative) == ParseTail(s, p, SkipHex(s, p), negative)

\* 2 when 0x or 0X and then a hex digit stand at p, else 0.
PrefixLen(s, p) ==
    IF p + 2 <= Len(s) /\ s[p] = 48 /\ s[p + 1] \in {120, 88} /\ IsHex(s[p + 2])
    THEN 2 ELSE 0

ParsePrefix(s, p, negative) == ParseDigits(s, p + PrefixLen(s, p), negative)

\* 1 when + or - stands at p, else 0.
SignLen(s, p) == IF p <= Len(s) /\ s[p] \in {43, 45} THEN 1 ELSE 0

ParseSign(s, p) ==
    ParsePrefix(s, SkipSpace(s, p + SignLen(s, p)), p <= Len(s) /\ s[p] = 45)

\* The parse of s as [ok, val]: val is the number when ok.
ParseInt16(s) == ParseSign(s, SkipSpace(s, 1))

Int16Of(parsed) == IF parsed.ok THEN parsed.val ELSE Raise("ValueError")

\* int(s, 16): the number, or the ValueError raised.
Int16(s) == Int16Of(ParseInt16(s))

----------------------------------------------------------------------------
(* Collaborators outside this file: alphasign.constants, alphasign.packet *)

WRITE_SPECIAL == <<27>>     \* constants.WRITE_SPECIAL
LOCKED == <<76>>            \* constants.LOCKED, "L"
UNLOCKED == <<85>>          \* constants.UNLOCKED, "U"

\* packet.Packet(contents): the packet object handed to write(); the framing it
\* adds is the packet module's and is not modelled, the contents are kept.
Packet(contents) == [contents |-> contents]

----------------------------------------------------------------------------
(* Transport: write(data) -> bool, read() -> str | False, and request *)

WriteCall(data, w) == [call |-> "write", data |-> data, ret |-> w]
ReadCall(r) == [call |-> "read", ret |-> r]

\* Mutant: read whatever write returned.
request_ReadAlways(data, w, r) ==
    [log |-> <<WriteCall(data, w), ReadCall(r)>>, ret |-> r]

\* request(data), with w the value self.write(data) returns and r the value
\* self.read() returns when it is called.
request(data, w, r) ==
    IF w
    THEN [log |-> <<WriteCall(data, w), ReadCall(r)>>, ret |-> r]
    ELSE [log |-> <<WriteCall(data, w)>>, ret |-> False]

----------------------------------------------------------------------------
(* Write-only operations *)

\* time.sleep(1) changes no state of the model.
clear_memory(w) ==
    [log |-> <<WriteCall(Packet(WRITE_SPECIAL \o <<36>>), w)>>, ret |-> None]

Clamp(x, lo, hi) == IF x < lo THEN lo ELSE IF x > hi THEN hi ELSE x

\* beep(frequency, duration, repeat); tenths stands for int(duration / 0.1),
\* the floating-point quotient truncated, which the caller's float decides.
beep(frequency, tenths, repeat, w) ==
    LET f == Clamp(frequency, 0, 254)
        d == Clamp(tenths, 1, 15)
        n == Clamp(repeat, 0, 15)
        pkt == Packet(WRITE_SPECIAL \o <<40, 50>> \o Fmt02X(f) \o FmtX(d) \o FmtX(n))
    IN [log |-> <<WriteCall(pkt, w)>>, ret |-> None]

soft_reset(w) ==
    [log |-> <<WriteCall(Packet(WRITE_SPECIAL \o <<44>>), w)>>, ret |-> None]

\* The record allocate builds for one caller file (the body of its first loop).
\* obj.cls is the class of the object: "String" for alphasign.string.String.
alloc_str(obj) ==
    LET size_hex == Fmt04X(obj.size)
        file_type == IF obj.cls = "String" THEN <<66>> ELSE <<65>>
        qqqq == IF obj.cls = "String" THEN <<48, 48, 48, 48>> ELSE <<70, 70, 70, 70>>
        lock == IF obj.cls = "String" THEN LOCKED ELSE UNLOCKED
    IN obj.label \o file_type \o lock \o size_hex \o qqqq

\* The record allocate builds for TARGET TEXT file i + 1 (its second loop body).
target_alloc_str(i) ==
    DecDigits(i + 1) \o <<65>> \o UNLOCKED \o Fmt04X(100) \o <<70, 69, 70, 69>>

\* Mutant: the loop runs range(4).
allocate_seq_FourTargets(files) ==
    Flatten([i \in 1..Len(files) |-> alloc_str(files[i])])
        \o Flatten([i \in 1..4 |-> target_alloc_str(i - 1)])

\* The string seq that allocate accumulates over both loops.
allocate_seq(files) ==
    Flatten([i \in 1..Len(files) |-> alloc_str(files[i])])
        \o Flatten([i \in 1..5 |-> target_alloc_str(i - 1)])

allocate(files, w) ==
    LET pkt == Packet(WRITE_SPECIAL \o <<36>> \o allocate_seq(files))
    IN [log |-> <<WriteCall(pkt, w)>>, ret |-> None]

set_run_sequence(files, locked, w) ==
    LET seq_str == <<46, 84>> \o (IF locked THEN <<76>> ELSE <<85>>)
                     \o Flatten([i \in 1..Len(files) |-> files[i].label])
        pkt == Packet(WRITE_SPECIAL \o seq_str)
    IN [log |-> <<WriteCall(pkt, w)>>, ret |-> None]

----------------------------------------------------------------------------
\* Regular expression of read_raw_memory_table, matched with re.match:
\*   one or more \x00, then \x01000\x02E\$, then group table: zero or more
\*   RECORD, then \x03, then group checksum: HEX{4}, then \x04
\* where RECORD is [\x20-\x7F][ABD][UL]HEX{4}HEX{4}.  Positions are 1-based.

Header == <<1, 48, 48, 48, 2, 69, 36>>      \* \x01 "000" \x02 "E$"

RECURSIVE LeadingNuls(_)
LeadingNuls(s) ==
    IF s # <<>> /\ Head(s) = 0 THEN 1 + LeadingNuls(Tail(s)) ELSE 0

LitAt(s, p, lit) ==
    /\ p + Len(lit) - 1 <= Len(s)
    /\ SubSeq(s, p, p + Len(lit) - 1) = lit

\* One RECORD group matches at position p of s.
RecordAt(s, p) ==
    /\ p + 10 <= Len(s)
    /\ IsLabelChar(s[p])
    /\ IsTypeChar(s[p + 1])
    /\ IsLockChar(s[p + 2])
    /\ \A i \in 3..10 : IsHex(s[p + i])

\* The largest number of consecutive RECORD groups matching from position p.
RECURSIVE RecordsAt(_, _)
RecordsAt(s, p) == IF RecordAt(s, p) THEN 1 + RecordsAt(s, p + 11) ELSE 0

\* Mutant: the checksum group takes any four characters.
TrailerAt_AnyChecksum(s, p) ==
    /\ p + 5 <= Len(s)
    /\ s[p] = 3
    /\ s[p + 5] = 4

\* \x03 HEX{4} \x04 matches at position p of s.
TrailerAt(s, p) ==
    /\ p + 5 <= Len(s)
    /\ s[p] = 3
    /\ \A i \in 1..4 : IsHex(s[p + i])
    /\ s[p + 5] = 4

\* Mutant: the pattern starts \x00* instead of \x00+.
NulCounts_Star(s) == 0..LeadingNuls(s)

\* The numbers of NUL bytes \x00+ can take at the start of s.
NulCounts(s) == 1..LeadingNuls(s)

\* Mutant: the record group also admits type character C.
RecordCounts_TypeC(s, p) ==
    LET RECURSIVE Count(_)
        Count(q) ==
            IF /\ q + 10 <= Len(s)
               /\ IsLabelChar(s[q])
               /\ s[q + 1] \in {65, 66, 67, 68}
               /\ IsLockChar(s[q + 2])
               /\ \A i \in 3..10 : IsHex(s[q + i])
            THEN 1 + Count(q + 11) ELSE 0
    IN 0..Count(p)

\* The numbers of RECORD groups the starred group can take from position p.
RecordCounts(s, p) == 0..RecordsAt(s, p)

\* re.match anchors the pattern at the start only: a match ending at position e
\* of s is a match whatever follows.
TableAnchor(s, e) == e <= Len(s)

\* The ways the pattern matches a prefix of s: <<n, k>> with n NUL bytes and
\* k records.
TableMatches(s) ==
    { nk \in UNION { { <<n, k>> : k \in RecordCounts(s, n + 8) } : n \in NulCounts(s) } :
        /\ LitAt(s, nk[1] + 1, Header)
        /\ TrailerAt(s, nk[1] + 8 + 11 * nk[2])
        /\ TableAnchor(s, nk[1] + 8 + 11 * nk[2] + 5) }

\* The match re.match returns: both quantifiers are greedy, so the match with
\* the most NUL bytes and then the most records.
TableMatch(s) ==
    CHOOSE nk \in TableMatches(s) :
        \A other \in TableMatches(s) :
            \/ other[1] < nk[1]
            \/ other[1] = nk[1] /\ other[2] <= nk[2]

\* match.group('table')
TableGroup(s) ==
    LET nk == TableMatch(s)
    IN SubSeq(s, nk[1] + 8, nk[1] + 7 + 11 * nk[2])

\* read_raw_memory_table(); w and r are the transport's outcomes.
read_raw_memory_table(w, r) ==
    LET req == request(Packet(<<70, 36>>), w, r)
        mem == req.ret
    IN [log |-> req.log, memory |-> mem,
        ret |-> IF mem.tag = "False" \/ (mem.tag = "str" /\ mem.val = <<>>)
                THEN False
                ELSE IF TableMatches(mem.val) # {} THEN Str(TableGroup(mem.val))
                ELSE False]

----------------------------------------------------------------------------
(* Helper functions for interpreting and processing memory tables *)

\* Mutant: only whole 11-character entries are yielded.
chunk_raw_memory_table_WholeOnly(table) ==
    [j \in 1..(Len(table) \div 11) |-> Slice(table, 11 * (j - 1), 11 * (j - 1) + 11)]

\* The sequence of values the generator yields: table[i:i+11] for
\* i in xrange(0, len(table), 11).
chunk_raw_memory_table(table) ==
    [j \in 1..((Len(table) + 10) \div 11) |->
        Slice(table, 11 * (j - 1), 11 * (j - 1) + 11)]

\* entry[0] == label, for a non-empty str entry and a label that is a str or None
LabelEquals(entry, label) == label.tag = "str" /\ label.val = <<entry[1]>>

find_raw_entry(table, label) ==
    LET chunks == chunk_raw_memory_table(table)
        hits == { j \in 1..Len(chunks) : LabelEquals(chunks[j], label) }
    IN IF hits = {} THEN None
       ELSE Str(chunks[CHOOSE j \in hits : \A h \in hits : j <= h])

\* Regular expression of parse_raw_entry, matched with re.match at the start of
\* entry: (label)(type_char)(locked)(size)(Q).
EntryMatches(entry) ==
    /\ Len(entry) >= 11
    /\ IsLabelChar(entry[1])
    /\ IsTypeChar(entry[2])
    /\ IsLockChar(entry[3])
    /\ \A i \in 4..11 : IsHex(entry[i])

\* match.groupdict()
EntryGroups(entry) ==
    [label |-> <<entry[1]>>, type_char |-> <<entry[2]>>, locked |-> <<entry[3]>>,
     size |-> SubSeq(entry, 4, 7), Q |-> SubSeq(entry, 8, 11)]

\* Mutant: the low byte of the size is taken as the height.
dots_height_Swapped(size) == size % 256

\* int(result["size"] / 256): Python 2's int / int is floor division, as \div.
dots_height(size) == size \div 256

dots_width(size) == size % 256

\* decorate_entry(entry) for a dict with the keys label, type_char, locked,
\* size, Q (all str).
decorate_entry(entry) ==
    IF ~ ParseInt16(entry.size).ok
    THEN Raise("ValueError")
    ELSE LET size == Int16(entry.size)
             type_char == entry.type_char
         IN IF type_char = <<65>>
            THEN Dict([label |-> entry.label, type_char |-> type_char,
                       locked |-> entry.locked, size |-> size, Q |-> entry.Q,
                       type |-> "TEXT"])
            ELSE IF type_char = <<66>>
            THEN Dict([label |-> entry.label, type_char |-> type_char,
                       locked |-> entry.locked, size |-> size, Q |-> entry.Q,
                       type |-> "STRING"])
            ELSE IF type_char = <<68>>
            THEN Dict([label |-> entry.label, type_char |-> type_char,
                       locked |-> entry.locked, size |-> size, Q |-> entry.Q,
                       type |-> "DOTS", height |-> dots_height(size),
                       width |-> dots_width(size)])
            ELSE Dict([label |-> entry.label, type_char |-> type_char,
                       locked |-> entry.locked, size |-> size, Q |-> entry.Q])

\* parse_raw_entry(entry): the callee cls._decorate_table_entry is looked up
\* before its argument is evaluated; re.match(...) returning None has no
\* groupdict.
parse_raw_entry(entry) ==
    IF ~ HasAttr("_decorate_table_entry") THEN Raise("AttributeError")
    ELSE IF ~ EntryMatches(entry) THEN Raise("AttributeError")
    ELSE decorate_entry(EntryGroups(entry))

\* The list comprehension: the first entry whose parse raises ends it.
parse_raw_memory_table(table) ==
    LET chunks == chunk_raw_memory_table(table)
        parsed == [j \in 1..Len(chunks) |-> parse_raw_entry(chunks[j])]
        raised == { j \in 1..Len(chunks) : IsRaise(parsed[j]) }
    IN IF raised # {}
       THEN parsed[CHOOSE j \in raised : \A h \in raised : j <= h]
       ELSE List(parsed)

find_entry(table, label) ==
    LET entry == find_raw_entry(table, label)
    IN IF entry.tag = "None" THEN None ELSE parse_raw_entry(entry.val)

\* read_memory_table(label): label is None or a str.
read_memory_table(label, w, r) ==
    LET raw == read_raw_memory_table(w, r)
        table == raw.ret
    IN [log |-> raw.log, memory |-> raw.memory,
        ret |-> IF table.tag = "False" THEN False
                ELSE IF label.tag = "None"
                THEN IF HasAttr("parse_whole_memory_table")
                     THEN parse_raw_memory_table(table.val)
                     ELSE Raise("AttributeError")
                ELSE IF HasAttr("search_raw_memory_table")
                     THEN find_entry(table.val, label)
                     ELSE Raise("AttributeError")]

----------------------------------------------------------------------------
(* Inputs explored *)

Nuls(n) == [i \in 1..n |-> 0]

\* Sequences of at most n elements of S
SeqsUpTo(S, n) == UNION { [1..m -> S] : m \in 0..n }

GoodRecs ==
    { <<65, 65, 85, 48, 48, 54, 52, 70, 70, 70, 70>>,       \* AAU0064FFFF
      <<66, 66, 76, 48, 48, 48, 65, 48, 48, 48, 48>>,       \* BBL000A0000
      <<65, 68, 76, 48, 55, 49, 48, 97, 98, 99, 100>> }     \* ADL0710abcd

BadRecs ==
    { <<67, 67, 85, 48, 48, 54, 52, 48, 48, 48, 48>>,       \* CCU00640000
      <<69, 65, 85, 48, 48, 54, 52, 70, 70, 70>>,           \* EAU0064FFF
      <<70, 65, 85, 48, 48, 71, 52, 70, 70, 70, 70>> }      \* FAU00G4FFFF

RecPool == GoodRecs \cup BadRecs

RecSeqs == SeqsUpTo(RecPool, MaxRecs)

Checksums == { <<65, 66, 49, 50>>, <<48, 97, 102, 57>> }    \* AB12, 0af9

Defects ==
    { "none", "trailing", "no_final", "bad_header", "no_etx", "short_checksum",
      "bad_checksum", "leading" }

\* A response of n NUL bytes, the records recs and the checksum cks, damaged as
\* the defect says.
Response(n, recs, cks, defect) ==
    LET hdr == IF defect = "bad_header"
               THEN <<1, 48, 48, 48, 2, 70, 36>>
               ELSE <<1, 48, 48, 48, 2, 69, 36>>
        etx == IF defect = "no_etx" THEN <<>> ELSE <<3>>
        sum == IF defect = "short_checksum" THEN SubSeq(cks, 1, 3)
               ELSE IF defect = "bad_checksum" THEN <<71>> \o SubSeq(cks, 2, 4)
               ELSE cks
        fin == IF defect = "no_final" THEN <<>>
               ELSE IF defect = "trailing" THEN <<4, 13>>
               ELSE <<4>>
        pre == IF defect = "leading" THEN <<32>> ELSE <<>>
    IN pre \o Nuls(n) \o hdr \o Flatten(recs) \o etx \o sum \o fin

ResponsePool ==
    { <<>> } \cup
    { Response(n, recs, cks, d) :
        n \in 0..MaxNul, recs \in RecSeqs, cks \in Checksums, d \in Defects }

\* Raw tables handed to the helper functions: whole records, or cut short.
TablePool ==
    { Slice(Flatten(recs), 0, Len(Flatten(recs)) - cut) :
        recs \in RecSeqs, cut \in {0, 4} }

\* Labels searched for: "A", "B", "Z", and the two-character "AB".
LabelPool == { <<65>>, <<66>>, <<90>>, <<65, 66>> }

FilePool ==
    { [label |-> <<65>>, size |-> 100, cls |-> "Text"],
      [label |-> <<66>>, size |-> 10, cls |-> "String"],
      [label |-> <<49>>, size |-> 100, cls |-> "Text"],
      [label |-> <<67>>, size |-> 65535, cls |-> "Text"],
      [label |-> <<90>>, size |-> 0, cls |-> "String"],
      [label |-> <<65, 66>>, size |-> 70000, cls |-> "Text"] }

FileLists == SeqsUpTo(FilePool, MaxFiles)

EntryPool ==
    RecPool \cup { alloc_str(f) : f \in FilePool }
            \cup { target_alloc_str(i) : i \in 0..4 }

SizePool ==
    { Fmt04X(256 * h + w) : h \in {0, 1, 7, 255}, w \in {0, 1, 100, 255} }
        \cup { <<102, 102, 48, 55>>, <<48, 48, 71, 52>> }    \* ff07, 00G4
        \cup { <<48, 120, 49, 48>>, <<32, 49, 48>>, <<43, 49, 48>>,   \* 0x10, " 10", +10
               <<45, 49, 48>>, <<49, 48, 10>>, <<48, 88, 49, 102>>,   \* -10, "10\n", 0X1f
               <<43, 32, 49, 48>>, <<48, 120>>, <<48, 120, 71>>,      \* "+ 10", 0x, 0xG
               <<43>>, <<>>, <<49, 48, 0>>, <<49, 32, 48>> }          \* +, "", "10\0", "1 0"

\* Dicts handed to decorate_entry: the shape of a groupdict of parse_raw_entry.
GroupDictPool ==
    { [label |-> <<65>>, type_char |-> <<t>>, locked |-> <<l>>, size |-> sz,
       Q |-> <<48, 48, 48, 48>>] :
        t \in {65, 66, 68}, l \in {85, 76}, sz \in SizePool }

----------------------------------------------------------------------------
(* State machine: one call at a time, then back to idle *)

NoArgs == [none |-> TRUE]

Init ==
    /\ op = "idle"
    /\ args = NoArgs
    /\ log = <<>>
    /\ memory = None
    /\ result = None

\* A call of a method that uses the transport; out is what the method did.
Called(name, a, out) ==
    /\ op' = name
    /\ args' = a
    /\ log' = out.log
    /\ memory' = out.memory
    /\ result' = out.ret

WriteOnly(out) == [log |-> out.log, memory |-> None, ret |-> out.ret]
Pure(ret) == [log |-> <<>>, memory |-> None, ret |-> ret]

Call_clear_memory ==
    /\ op = "idle"
    /\ \E w \in BOOLEAN : Called("clear_memory", NoArgs, WriteOnly(clear_memory(w)))

Call_beep ==
    /\ op = "idle"
    /\ \E frequency \in {-1, 0, 100, 254, 300}, tenths \in {0, 1, 15, 20},
          repeat \in {-1, 0, 15, 16}, w \in BOOLEAN :
           Called("beep",
                  [frequency |-> frequency, tenths |-> tenths, repeat |-> repeat],
                  WriteOnly(beep(frequency, tenths, repeat, w)))

Call_soft_reset ==
    /\ op = "idle"
    /\ \E w \in BOOLEAN : Called("soft_reset", NoArgs, WriteOnly(soft_reset(w)))

Call_allocate ==
    /\ op = "idle"
    /\ \E files \in FileLists, w \in BOOLEAN :
           Called("allocate", [files |-> files], WriteOnly(allocate(files, w)))

Call_set_run_sequence ==
    /\ op = "idle"
    /\ \E files \in FileLists, locked \in BOOLEAN, w \in BOOLEAN :
           Called("set_run_sequence", [files |-> files, locked |-> locked],
                  WriteOnly(set_run_sequence(files, locked, w)))

Call_read_raw_memory_table ==
    /\ op = "idle"
    /\ \E w \in BOOLEAN :
           \/ Called("read_raw_memory_table", NoArgs, read_raw_memory_table(w, False))
           \/ \E s \in ResponsePool :
                 Called("read_raw_memory_table", NoArgs,
                        read_raw_memory_table(w, Str(s)))

Call_read_memory_table ==
    /\ op = "idle"
    /\ \E w \in BOOLEAN, s \in ResponsePool :
           \/ Called("read_memory_table", [label |-> None],
                     read_memory_table(None, w, Str(s)))
           \/ \E l \in LabelPool :
                 Called("read_memory_table", [label |-> Str(l)],
                        read_memory_table(Str(l), w, Str(s)))
           \/ Called("read_memory_table", [label |-> None],
                     read_memory_table(None, w, False))

Call_chunk_raw_memory_table ==
    /\ op = "idle"
    /\ \E table \in TablePool :
           Called("chunk_raw_memory_table", [table |-> table],
                  Pure(List(chunk_raw_memory_table(table))))

Call_find_raw_entry ==
    /\ op = "idle"
    /\ \E table \in TablePool, l \in LabelPool :
           Called("find_raw_entry", [table |-> table, label |-> Str(l)],
                  Pure(find_raw_entry(table, Str(l))))

Call_parse_raw_entry ==
    /\ op = "idle"
    /\ \E entry \in EntryPool :
           Called("parse_raw_entry", [entry |-> entry], Pure(parse_raw_entry(entry)))

Call_decorate_entry ==
    /\ op = "idle"
    /\ \E entry \in GroupDictPool :
           Called("decorate_entry", [entry |-> entry], Pure(decorate_entry(entry)))

Call_parse_raw_memory_table ==
    /\ op = "idle"
    /\ \E table \in TablePool :
           Called("parse_raw_memory_table", [table |-> table],
                  Pure(parse_raw_memory_table(table)))

Call_find_entry ==
    /\ op = "idle"
    /\ \E table \in TablePool, l \in LabelPool :
           Called("find_entry", [table |-> table, label |-> Str(l)],
                  Pure(find_entry(table, Str(l))))

\* The caller takes the result; the object keeps nothing between calls.
Return ==
    /\ op # "idle"
    /\ op' = "idle"
    /\ args' = NoArgs
    /\ log' = <<>>
    /\ memory' = None
    /\ result' = None

Next ==
    \/ Call_clear_memory
    \/ Call_beep
    \/ Call_soft_reset
    \/ Call_allocate
    \/ Call_set_run_sequence
    \/ Call_read_raw_memory_table
    \/ Call_read_memory_table
    \/ Call_chunk_raw_memory_table
    \/ Call_find_raw_entry
    \/ Call_parse_raw_entry
    \/ Call_decorate_entry
    \/ Call_parse_raw_memory_table
    \/ Call_find_entry
    \/ Return

Spec == Init /\ [][Next]_vars

----------------------------------------------------------------------------
(* Vocabulary of the properties, stated without the matcher of the model *)

HexChars == (48..57) \cup (65..70) \cup (97..102)

WellFormedRecord(rec) ==
    /\ Len(rec) = 11
    /\ rec[1] \in 32..127
    /\ rec[2] \in {65, 66, 68}
    /\ rec[3] \in {85, 76}
    /\ \A i \in 4..11 : rec[i] \in HexChars

\* The k 11-byte groups of s that follow n NUL bytes and the 7-byte header.
RegionOf(s, n, k) == SubSeq(s, n + 8, n + 7 + 11 * k)

\* s starts with n NUL bytes, the header, k well-formed records, 0x03, four hex
\* digits and 0x04.
StartsWithEnvelope(s, n, k) ==
    /\ Len(s) >= n + 7 + 11 * k + 6
    /\ \A i \in 1..n : s[i] = 0
    /\ SubSeq(s, n + 1, n + 7) = <<1, 48, 48, 48, 2, 69, 36>>
    /\ \A j \in 1..k : WellFormedRecord(SubSeq(s, n + 11 * j - 3, n + 11 * j + 7))
    /\ s[n + 8 + 11 * k] = 3
    /\ \A i \in 1..4 : s[n + 8 + 11 * k + i] \in HexChars
    /\ s[n + 8 + 11 * k + 5] = 4

\* <<n, k>> such that s is, as a whole, an envelope of n NUL bytes and k records
EnvelopeParts(s) ==
    { nk \in (0..Len(s)) \X (0..(Len(s) \div 11)) :
        /\ StartsWithEnvelope(s, nk[1], nk[2])
        /\ Len(s) = nk[1] + 7 + 11 * nk[2] + 6 }

\* <<n, k>> such that s starts with an envelope of n NUL bytes and k records
PrefixParts(s) ==
    { nk \in (0..Len(s)) \X (0..(Len(s) \div 11)) :
        StartsWithEnvelope(s, nk[1], nk[2]) }

TableRead == op \in {"read_raw_memory_table", "read_memory_table"}

WriteOnlyOp ==
    op \in {"beep", "soft_reset", "clear_memory", "allocate", "set_run_sequence"}

----------------------------------------------------------------------------
(* C1 *)

\* C1: a table read uses the transport as one write followed by at most one
\* read; the read happens only after the write returned success, and a failed
\* write means no read and a failure result.  The write-only operations make
\* exactly one write and no read.
C1_TransportDiscipline ==
    /\ TableRead =>
        /\ Len(log) \in 1..2
        /\ log[1].call = "write"
        /\ Len(log) = 2 => (log[2].call = "read" /\ log[1].ret = TRUE)
        /\ log[1].ret = FALSE => (Len(log) = 1 /\ result = False)
    /\ WriteOnlyOp => (Len(log) = 1 /\ log[1].call = "write")

C1_Witness ==
    /\ op = "read_memory_table"
    /\ Len(log) = 2
    /\ log[1].call = "write" /\ log[1].ret = TRUE
    /\ log[2].call = "read"

----------------------------------------------------------------------------
(* C2, C3, C10: extraction of the record region *)

\* The response the transport returned to a table read, when it returned a str
GotResponse == TableRead /\ memory.tag = "str"

\* C2 as stated: every response that is an envelope of zero or more NUL bytes
\* and k records makes read_raw_memory_table return the k records, whatever
\* the checksum; so does the envelope with no NUL byte and no record.
C2_ZeroOrMoreNuls ==
    (op = "read_raw_memory_table" /\ GotResponse) =>
        \A nk \in EnvelopeParts(memory.val) :
            /\ result.tag = "str"
            /\ result.val = RegionOf(memory.val, nk[1], nk[2])

\* C2 amended: every response that is an envelope of one or more NUL bytes and
\* k records makes read_raw_memory_table return the k records, whatever the
\* checksum; an envelope with no leading NUL byte is a failure.
C2_OneOrMoreNuls ==
    (op = "read_raw_memory_table" /\ GotResponse) =>
        \A nk \in EnvelopeParts(memory.val) :
            IF nk[1] >= 1
            THEN /\ result.tag = "str"
                 /\ result.val = RegionOf(memory.val, nk[1], nk[2])
            ELSE result.tag = "False"

C2_Witness ==
    /\ op = "read_raw_memory_table"
    /\ GotResponse
    /\ <<2, 2>> \in EnvelopeParts(memory.val)
    /\ result.tag = "str"
    /\ Len(result.val) = 22

\* C3 as stated: a response that is empty or is not as a whole an envelope
\* (nothing after the final 0x04) is a failure, as is a failed write or read.
C3_WholeResponse ==
    op = "read_raw_memory_table" =>
        ((\/ memory.tag = "False"
          \/ memory.val = <<>>
          \/ EnvelopeParts(memory.val) = {}) => result.tag = "False")

\* C3 amended: a response that is empty or does not start with an envelope is a
\* failure, as is a failed write or read; bytes after the final 0x04 are
\* ignored: a response that starts with an envelope of at least one NUL byte
\* succeeds, and a success returns the whole record region of the envelope the
\* response starts with, never a part of it.
C3_AllOrNothing ==
    op = "read_raw_memory_table" =>
        /\ (\/ memory.tag = "False"
            \/ memory.val = <<>>
            \/ PrefixParts(memory.val) = {}) => result.tag = "False"
        /\ (memory.tag = "str" /\ \E nk \in PrefixParts(memory.val) : nk[1] >= 1)
              => result.tag = "str"
        /\ result.tag = "str" =>
              \E nk \in PrefixParts(memory.val) :
                  result.val = RegionOf(memory.val, nk[1], nk[2])
        /\ log[1].ret = FALSE => result.tag = "False"
        /\ (Len(log) = 2 /\ log[2].ret.tag = "False") => result.tag = "False"

\* A response whose first record is well formed and whose second is not
C3_Witness ==
    /\ op = "read_raw_memory_table"
    /\ GotResponse
    /\ Len(memory.val) >= 31
    /\ memory.val[1] = 0
    /\ SubSeq(memory.val, 2, 8) = <<1, 48, 48, 48, 2, 69, 36>>
    /\ WellFormedRecord(SubSeq(memory.val, 9, 19))
    /\ ~ WellFormedRecord(SubSeq(memory.val, 20, 30))
    /\ memory.val[20] # 3
    /\ result.tag = "False"

\* C10: a record region read_raw_memory_table returns has a length that is a
\* multiple of 11, and each of its chunks is 11 long and matches the pattern of
\* parse_raw_entry.
C10_RegionIsRecords ==
    (op = "read_raw_memory_table" /\ result.tag = "str") =>
        /\ Len(result.val) % 11 = 0
        /\ \A j \in 1..Len(chunk_raw_memory_table(result.val)) :
              /\ Len(chunk_raw_memory_table(result.val)[j]) = 11
              /\ EntryMatches(chunk_raw_memory_table(result.val)[j])

C10_Witness ==
    /\ op = "read_raw_memory_table"
    /\ result.tag = "str"
    /\ Len(chunk_raw_memory_table(result.val)) = 2
    /\ result.val[1] # result.val[12]

----------------------------------------------------------------------------
(* C4, C5: read_memory_table after a successful table read *)

\* The 11-byte records, in device order, of a response read_raw_memory_table
\* extracts a table from: the response starts with one or more NUL bytes and
\* an envelope.
ReadSucceeded ==
    /\ op = "read_memory_table"
    /\ GotResponse
    /\ \E nk \in PrefixParts(memory.val) : nk[1] >= 1

DeviceRecords ==
    LET nk == CHOOSE x \in PrefixParts(memory.val) : x[1] >= 1
    IN [j \in 1..nk[2] |->
          SubSeq(memory.val, nk[1] + 11 * j - 3, nk[1] + 11 * j + 7)]

\* The entry a well-formed record decodes to
Decoded(rec) == decorate_entry(EntryGroups(rec))

\* C4: with a label, read_memory_table returns the decoded entry of the first
\* record, in device order, whose label byte is the label, and None when no
\* record has it.
C4_FirstMatchDecoded ==
    (ReadSucceeded /\ args.label.tag = "str") =>
        LET hits == { j \in 1..Len(DeviceRecords) :
                        <<DeviceRecords[j][1]>> = args.label.val }
        IN IF hits = {}
           THEN result.tag = "None"
           ELSE /\ result.tag = "dict"
                /\ result = Decoded(DeviceRecords[CHOOSE j \in hits :
                                                    \A h \in hits : j <= h])

\* C5: without a label, read_memory_table returns the k decoded entries of the
\* k records of the response, in device order, duplicates kept.
C5_WholeTableDecoded ==
    (ReadSucceeded /\ args.label.tag = "None") =>
        /\ result.tag = "list"
        /\ Len(result.val) = Len(DeviceRecords)
        /\ \A j \in 1..Len(DeviceRecords) :
              result.val[j] = Decoded(DeviceRecords[j])

----------------------------------------------------------------------------
(* C6: decorate_entry *)

Upper(c) == IF c \in 97..102 THEN c - 32 ELSE c

ValidGroupDict(d) ==
    /\ d.type_char \in {<<65>>, <<66>>, <<68>>}
    /\ Len(d.size) = 4
    /\ \A i \in 1..4 : d.size[i] \in HexChars

\* C6: for a valid record the entry has height and width exactly when its kind
\* is DOTS, and then size = 256 * height + width with both in 0..255; the kind
\* is TEXT for A, STRING for B, DOTS for D; size is the value of the hex field.
C6_DotsHeightWidth ==
    (op = "decorate_entry" /\ ValidGroupDict(args.entry)) =>
        /\ result.tag = "dict"
        /\ result.val.size \in 0..65535
        /\ Fmt04X(result.val.size) = [i \in 1..4 |-> Upper(args.entry.size[i])]
        /\ result.val.type =
              (IF args.entry.type_char = <<65>> THEN "TEXT"
               ELSE IF args.entry.type_char = <<66>> THEN "STRING" ELSE "DOTS")
        /\ ("height" \in DOMAIN result.val) <=> (result.val.type = "DOTS")
        /\ ("width" \in DOMAIN result.val) <=> (result.val.type = "DOTS")
        /\ result.val.type = "DOTS" =>
              /\ result.val.height \in 0..255
              /\ result.val.width \in 0..255
              /\ result.val.size = 256 * result.val.height + result.val.width
              /\ result.val.height = result.val.size \div 256
              /\ result.val.width = result.val.size % 256

\* The DOTS record of size 0x0764: height 7, width 100
C6_Witness ==
    /\ op = "decorate_entry"
    /\ args.entry.type_char = <<68>>
    /\ args.entry.size = <<48, 55, 54, 52>>
    /\ result.tag = "dict"
    /\ result.val.height = 7
    /\ result.val.width = 100

----------------------------------------------------------------------------
(* C7, C8: allocate *)

\* The five TARGET TEXT records: labels 1..5, type A, unlocked, 0064, FEFE
FixedTargets ==
    Flatten([i \in 1..5 |-> <<48 + i, 65, 85, 48, 48, 54, 52, 70, 69, 70, 69>>])

\* C7: the packet allocate writes is 0x1B '$', the caller's records in the
\* caller's order, then the five fixed records, which are its last 55 bytes.
C7_FiveTrailingTargets ==
    op = "allocate" =>
        LET contents == log[1].data.contents
            callers == Flatten([i \in 1..Len(args.files) |-> alloc_str(args.files[i])])
        IN /\ contents = <<27, 36>> \o callers \o FixedTargets
           /\ Len(contents) >= 57
           /\ SubSeq(contents, Len(contents) - 54, Len(contents)) = FixedTargets

C7_Witness ==
    /\ op = "allocate"
    /\ Len(args.files) = 2
    /\ args.files[1].label = <<49>>
    /\ Len(log[1].data.contents) = 2 + 22 + 55

\* A file with a single printable label and a size of 0..65535
RoundTripFile(f) ==
    /\ Len(f.label) = 1
    /\ f.label[1] \in 32..127
    /\ f.size \in 0..65535

\* C8: the record allocate emits for such a file is 11 bytes (label, type, lock,
\* 4-hex size, 4-hex Q-field), and parse_raw_entry decodes it to the same label
\* and size, STRING and locked for a string file, TEXT and unlocked otherwise.
C8_AllocRoundTrip ==
    op = "parse_raw_entry" =>
        \A f \in FilePool :
            (RoundTripFile(f) /\ args.entry = alloc_str(f)) =>
                /\ Len(args.entry) = 11
                /\ result.tag = "dict"
                /\ result.val.label = f.label
                /\ result.val.size = f.size
                /\ result.val.type = (IF f.cls = "String" THEN "STRING" ELSE "TEXT")
                /\ result.val.locked = (IF f.cls = "String" THEN <<76>> ELSE <<85>>)

----------------------------------------------------------------------------
(* C9: chunk_raw_memory_table *)

\* C9 as stated: a region whose length is no multiple of 11 is an error, an
\* empty region gives no slice, a region of 11 * k bytes gives its k slices.
C9_TruncatedIsError ==
    op = "chunk_raw_memory_table" =>
        IF Len(args.table) % 11 # 0
        THEN result.tag = "raise"
        ELSE /\ result.tag = "list"
             /\ Len(result.val) = Len(args.table) \div 11
             /\ \A j \in 1..Len(result.val) :
                   result.val[j] = SubSeq(args.table, 11 * j - 10, 11 * j)

\* C9 amended: a region of 11 * k + m bytes, 0 < m < 11, gives its k 11-byte
\* slices and then a final slice of its last m bytes, and no error; an empty
\* region gives no slice; a region of 11 * k bytes gives its k slices.
C9_ShortFinalSlice ==
    op = "chunk_raw_memory_table" =>
        LET n == Len(args.table)
            k == n \div 11
            m == n % 11
        IN /\ result.tag = "list"
           /\ Len(result.val) = (IF m = 0 THEN k ELSE k + 1)
           /\ \A j \in 1..k : result.val[j] = SubSeq(args.table, 11 * j - 10, 11 * j)
           /\ m # 0 => result.val[k + 1] = SubSeq(args.table, 11 * k + 1, n)
           /\ Flatten(result.val) = args.table

C9_Witness ==
    /\ op = "chunk_raw_memory_table"
    /\ Len(args.table) = 18
    /\ result.tag = "list"
    /\ Len(result.val) = 2
    /\ Len(result.val[1]) = 11
    /\ Len(result.val[2]) = 7

====
